---- MODULE Spec2Model ----
(***************************************************************************)
(* Torre Automation API (src/main.py): the industry classifier, the three  *)
(* flag endpoints, the aggregate endpoint, the client lookup, the          *)
(* /industries listing and the lazily created shared warehouse connection, *)
(* with requests handled by concurrent worker threads.                     *)
(*                                                                         *)
(* Text is a TLA+ string; a SQL NULL / Python None in a text column is the *)
(* value NULL; a nullable date is a set holding at most one day number.    *)
(* Dates are day numbers; current_date is Today.                           *)
(***************************************************************************)
EXTENDS Integers, Sequences, FiniteSets, TLC

VARIABLES
    _poseidon,   \* the module-level connection: None or a connection object
    created,     \* number of connection objects the factory has returned
    started,     \* number of requests accepted so far
    pc,          \* per worker: where its handler stands
    req,         \* per worker: the request (or call) being handled
    poseidon,    \* per worker: the handler's local `poseidon`
    flags,       \* per worker: sub-results gathered by all-priorities
    trace,       \* per worker: the sub-queries run so far, with their outcome
    resp,        \* per worker: what the handler returned or raised
    mart_jobs    \* poseidon.mart_jobs, which the service only reads

vars == <<_poseidon, created, started, pc, req, poseidon, flags, trace, resp, mart_jobs>>

\* ------------------------------------------------------------------ bounds

\* Worker threads of the synchronous endpoint thread pool.
Threads == {"w1", "w2"}

\* Requests accepted in one behaviour.
MaxRequests == 2

\* current_date, as a day number.
Today == 20

\* ------------------------------------------------------------------- text

None == "None"
NULL == None

Upper == <<"A","B","C","D","E","F","G","H","I","J","K","L","M",
           "N","O","P","Q","R","S","T","U","V","W","X","Y","Z">>
LowerLetters == <<"a","b","c","d","e","f","g","h","i","j","k","l","m",
                  "n","o","p","q","r","s","t","u","v","w","x","y","z">>

\* str.lower() on one character.
LowerChar(c) ==
    IF \E i \in DOMAIN Upper : Upper[i] = c
    THEN LowerLetters[CHOOSE i \in DOMAIN Upper : Upper[i] = c]
    ELSE c

RECURSIVE Lower(_)
\* str.lower()
Lower(s) ==
    IF s = "" THEN ""
    ELSE LowerChar(SubSeq(s, 1, 1)) \o Lower(SubSeq(s, 2, Len(s)))

\* Python's `word in text` on strings: substring occurrence.
Contains(word, text) ==
    \E i \in 1..(Len(text) - Len(word) + 1) :
        SubSeq(text, i, i + Len(word) - 1) = word

\* any(word in text for word in words)
AnyWordIn(words, text) == \E i \in DOMAIN words : Contains(words[i], text)

\* Truthiness of a text value: None and "" are falsy.
Truthy(x) == x /= None /\ x /= ""

\* str() of a date.
str(d) == ToString(d)

\* ------------------------------------------------------------- classifier

TechWords == <<"developer", "engineer", "software", "programmer", "tech",
               "data", "cloud", "devops", "frontend", "backend">>
SalesWords == <<"sales", "marketing", "account", "business development", "growth">>
FinanceWords == <<"finance", "accountant", "financial", "controller", "cfo">>
HealthWords == <<"health", "medical", "doctor", "nurse", "clinical">>
DesignWords == <<"design", "ux", "ui", "graphic", "creative">>
HrWords == <<"human resources", "hr", "operations", "admin">>
CustomerWords == <<"customer", "support", "service", "success">>

build_job_link(hash_id) == "https://torre.ai/post/" \o hash_id

\* detect_industry with a seeded fault: sales/marketing tested before technology.
detect_industry_SalesFirst(vacancy_name, company_name) ==
    LET text == Lower(vacancy_name \o " " \o company_name) IN
    IF AnyWordIn(SalesWords, text) THEN "sales_marketing"
    ELSE IF AnyWordIn(TechWords, text) THEN "technology"
    ELSE IF AnyWordIn(FinanceWords, text) THEN "finance"
    ELSE IF AnyWordIn(HealthWords, text) THEN "healthcare"
    ELSE IF AnyWordIn(DesignWords, text) THEN "design"
    ELSE IF AnyWordIn(HrWords, text) THEN "operations_hr"
    ELSE IF AnyWordIn(CustomerWords, text) THEN "customer_service"
    ELSE "general"

\* detect_industry with a seeded fault: no default label for unmatched text.
detect_industry_NoDefault(vacancy_name, company_name) ==
    LET text == Lower(vacancy_name \o " " \o company_name) IN
    IF AnyWordIn(TechWords, text) THEN "technology"
    ELSE IF AnyWordIn(SalesWords, text) THEN "sales_marketing"
    ELSE IF AnyWordIn(FinanceWords, text) THEN "finance"
    ELSE IF AnyWordIn(HealthWords, text) THEN "healthcare"
    ELSE IF AnyWordIn(DesignWords, text) THEN "design"
    ELSE IF AnyWordIn(HrWords, text) THEN "operations_hr"
    ELSE IF AnyWordIn(CustomerWords, text) THEN "customer_service"
    ELSE None

detect_industry(vacancy_name, company_name) ==
    LET text == Lower(vacancy_name \o " " \o company_name) IN
    IF AnyWordIn(TechWords, text) THEN "technology"
    ELSE IF AnyWordIn(SalesWords, text) THEN "sales_marketing"
    ELSE IF AnyWordIn(FinanceWords, text) THEN "finance"
    ELSE IF AnyWordIn(HealthWords, text) THEN "healthcare"
    ELSE IF AnyWordIn(DesignWords, text) THEN "design"
    ELSE IF AnyWordIn(HrWords, text) THEN "operations_hr"
    ELSE IF AnyWordIn(CustomerWords, text) THEN "customer_service"
    ELSE "general"

\* GET /industries
get_available_industries ==
    [success |-> TRUE,
     industries |->
        [technology |-> [name |-> "Technology",
            keywords |-> <<"developer", "engineer", "software", "tech", "data", "cloud">>],
         sales_marketing |-> [name |-> "Sales & Marketing",
            keywords |-> <<"sales", "marketing", "account", "growth">>],
         finance |-> [name |-> "Finance",
            keywords |-> <<"finance", "accountant", "financial", "cfo">>],
         healthcare |-> [name |-> "Healthcare",
            keywords |-> <<"health", "medical", "doctor", "nurse">>],
         design |-> [name |-> "Design",
            keywords |-> <<"design", "ux", "ui", "graphic", "creative">>],
         operations_hr |-> [name |-> "Operations & HR",
            keywords |-> <<"hr", "operations", "admin">>],
         customer_service |-> [name |-> "Customer Service",
            keywords |-> <<"customer", "support", "service">>],
         general |-> [name |-> "General", keywords |-> <<>>]]]

\* -------------------------------------------------------------- warehouse

\* poseidon.mart_genomes: the poster profiles.
mart_genomes ==
    { [gg_id |-> "gg1", name |-> "Ana", email |-> "ana@torre.co"],
      [gg_id |-> "gg2", name |-> "Bo",  email |-> "bo@torre.co"],
      [gg_id |-> "gg3", name |-> "Cy",  email |-> "cy@torre.co"] }

\* Rows poseidon.mart_jobs may hold.
JobPool ==
    { [hash_id |-> "h1", opportunity_id |-> "o1", objective |-> "Sales Engineer",
       organization_name |-> "Acme", locale |-> "en", poster_gg_id |-> "gg1",
       published_date |-> Today - 1, poster_first_post |-> Today - 1,
       status |-> "open", review |-> "approved", valuable_appls |-> 5,
       business_line |-> NULL],
      [hash_id |-> "h2", opportunity_id |-> "o2", objective |-> NULL,
       organization_name |-> NULL, locale |-> "es", poster_gg_id |-> "gg1",
       published_date |-> Today, poster_first_post |-> Today - 1,
       status |-> "open", review |-> "approved", valuable_appls |-> 3,
       business_line |-> "torre_jobs"],
      [hash_id |-> "h3", opportunity_id |-> "o3", objective |-> "Accountant",
       organization_name |-> "Health Co", locale |-> "en", poster_gg_id |-> "gg2",
       published_date |-> Today + 1, poster_first_post |-> Today - 7,
       status |-> "open", review |-> "approved", valuable_appls |-> 6,
       business_line |-> NULL],
      [hash_id |-> "h4", opportunity_id |-> "o4", objective |-> "Nurse",
       organization_name |-> "", locale |-> "es", poster_gg_id |-> "gg2",
       published_date |-> Today - 7, poster_first_post |-> Today - 7,
       status |-> "open", review |-> "approved", valuable_appls |-> 2,
       business_line |-> NULL],
      [hash_id |-> "h5", opportunity_id |-> "o5", objective |-> "Backend Developer",
       organization_name |-> "Torre", locale |-> "en", poster_gg_id |-> "gg1",
       published_date |-> Today - 1, poster_first_post |-> Today - 1,
       status |-> "open", review |-> "approved", valuable_appls |-> 1,
       business_line |-> "torre_os"],
      [hash_id |-> "h6", opportunity_id |-> "o6", objective |-> "UX Designer",
       organization_name |-> "Studio", locale |-> "en", poster_gg_id |-> "gg9",
       published_date |-> Today - 1, poster_first_post |-> Today - 1,
       status |-> "open", review |-> "approved", valuable_appls |-> 0,
       business_line |-> NULL],
      [hash_id |-> "h7", opportunity_id |-> "o7", objective |-> "Office Admin",
       organization_name |-> "Acme", locale |-> "en", poster_gg_id |-> "gg1",
       published_date |-> Today - 1, poster_first_post |-> Today - 1,
       status |-> "closed", review |-> "approved", valuable_appls |-> 0,
       business_line |-> NULL],
      [hash_id |-> "h8", opportunity_id |-> "o8", objective |-> "Support Hero",
       organization_name |-> "DATA Corp", locale |-> "en", poster_gg_id |-> "gg3",
       published_date |-> Today, poster_first_post |-> Today,
       status |-> "open", review |-> NULL, valuable_appls |-> 9,
       business_line |-> NULL] }

\* The tables poseidon.mart_jobs is drawn from: all of the pool, and no posting.
JobTables == { JobPool, {} }

\* poseidon.mart_applications: pipeline events, each date nullable.
mart_applications ==
    { [opportunity_id |-> "o1", disqualified_date |-> {Today - 8}, mm_date |-> {}],
      [opportunity_id |-> "o1", disqualified_date |-> {}, mm_date |-> {Today - 9}],
      [opportunity_id |-> "o2", disqualified_date |-> {Today - 2}, mm_date |-> {Today - 1}],
      [opportunity_id |-> "o4", disqualified_date |-> {}, mm_date |-> {}] }

\* '1970-01-01'::timestamp, as a day number.
Epoch == 0

Max(S) == CHOOSE x \in S : \A y \in S : y <= x

\* COALESCE(d, '1970-01-01'::timestamp)
Coalesce(d) == IF d = {} THEN Epoch ELSE CHOOSE x \in d : TRUE

\* The `activity` sub-select: MAX(GREATEST(..)) per opportunity_id; no row for an
\* opportunity without applications, which the LEFT JOIN turns into NULL.
last_activity(opportunity_id) ==
    LET rows == {ma \in mart_applications : ma.opportunity_id = opportunity_id} IN
    IF rows = {} THEN {}
    ELSE {Max({Max({Coalesce(ma.disqualified_date), Coalesce(ma.mm_date)}) : ma \in rows})}

\* INNER JOIN poseidon.mart_genomes mg ON mj.poster_gg_id = mg.gg_id
Joined(jobs) ==
    {jg \in jobs \X mart_genomes : jg[1].poster_gg_id = jg[2].gg_id}

\* (mj.business_line <> 'torre_os' OR mj.business_line IS NULL)
NotTorreOs(mj) ==
    (mj.business_line /= NULL /\ mj.business_line /= "torre_os")
    \/ mj.business_line = NULL

\* The valuable-applicants limit of less-than-6.
ValuableLimit == 6

\* WHERE clause of get_new_ts_posting.
where_new_ts_posting(mj, days) ==
    /\ mj.published_date = mj.poster_first_post
    /\ mj.status = "open"
    /\ mj.published_date >= Today - days
    /\ mj.published_date < Today + 1
    /\ NotTorreOs(mj)

\* WHERE clause of get_less_than_6.
where_less_than_6(mj, days) ==
    /\ mj.review = "approved"
    /\ mj.status = "open"
    /\ mj.valuable_appls < ValuableLimit
    /\ mj.published_date >= Today - days
    /\ mj.published_date < Today + 1
    /\ NotTorreOs(mj)

\* WHERE clause of get_no_activity.
where_no_activity(mj, inactive_days, lookback_days) ==
    /\ mj.review = "approved"
    /\ mj.status = "open"
    /\ mj.published_date >= Today - lookback_days
    /\ NotTorreOs(mj)
    /\ \/ \E a \in last_activity(mj.opportunity_id) : a < Today - inactive_days
       \/ last_activity(mj.opportunity_id) = {}

\* SELECT DISTINCT lists: a row is a tuple, indexed from 0 in the source.
select_new_ts_posting(jobs, days) ==
    { <<jg[2].name, jg[2].email, jg[1].objective, jg[1].hash_id, jg[1].locale,
        jg[1].published_date, jg[1].organization_name, jg[1].poster_gg_id,
        jg[1].review>> :
      jg \in {x \in Joined(jobs) : where_new_ts_posting(x[1], days)} }

select_less_than_6(jobs, days) ==
    { <<jg[2].name, jg[2].email, jg[1].objective, jg[1].hash_id, jg[1].locale,
        jg[1].published_date, jg[1].organization_name, jg[1].poster_gg_id,
        jg[1].valuable_appls>> :
      jg \in {x \in Joined(jobs) : where_less_than_6(x[1], days)} }

select_no_activity(jobs, inactive_days, lookback_days) ==
    { <<jg[2].name, jg[2].email, jg[1].objective, jg[1].hash_id, jg[1].locale,
        jg[1].published_date, jg[1].organization_name, jg[1].poster_gg_id>> :
      jg \in {x \in Joined(jobs) : where_no_activity(x[1], inactive_days, lookback_days)} }

\* The client-lookup query: one row per matching poster, LEFT JOIN on the jobs.
select_client(jobs, email) ==
    { LET mine == {mj \in jobs : mj.poster_gg_id = mg.gg_id}
          dates == {mj.published_date : mj \in mine} IN
      <<mg.name, mg.email, mg.gg_id,
        Cardinality({mj.hash_id : mj \in mine}),
        Cardinality({mj.hash_id : mj \in {x \in mine : x.status = "open"}}),
        IF dates = {} THEN {} ELSE {CHOOSE d \in dates : \A e \in dates : d <= e},
        IF dates = {} THEN {} ELSE {Max(dates)}>> :
      mg \in {g \in mart_genomes : g.email = email} }

\* Column i of a row, with the source's 0-based index.
Col(r, i) == r[i + 1]

\* Every listing of the rows in an order the ORDER BY published_date DESC allows.
OrderedDesc(rows) ==
    LET n == Cardinality(rows) IN
    { s \in [1..n -> rows] :
        /\ \A i, j \in 1..n : i /= j => s[i] /= s[j]
        /\ \A i \in 1..n, j \in 1..n : i < j => Col(s[i], 5) >= Col(s[j], 5) }

\* Every listing of the rows: the client query states no order.
AnyOrder(rows) ==
    LET n == Cardinality(rows) IN
    { s \in [1..n -> rows] : \A i, j \in 1..n : i /= j => s[i] /= s[j] }

\* --------------------------------------------------------------- shaping

\* The loop bodies of the three flag endpoints: one record per row.
record_new_ts_posting(r) ==
    LET vacancy_name == IF Truthy(Col(r, 2)) THEN Col(r, 2) ELSE "Untitled Position"
        company_name == IF Truthy(Col(r, 6)) THEN Col(r, 6) ELSE "Company" IN
    [ts_name |-> Col(r, 0), ts_email |-> Col(r, 1), vacancy_name |-> vacancy_name,
     vacancy_link |-> build_job_link(Col(r, 3)), locale |-> Col(r, 4),
     published_date |-> str(Col(r, 5)), company_name |-> company_name,
     poster_gg_id |-> Col(r, 7), review_status |-> Col(r, 8),
     industry |-> detect_industry(vacancy_name, company_name),
     flag |-> "new_ts_posting"]

record_less_than_6(r) ==
    LET vacancy_name == IF Truthy(Col(r, 2)) THEN Col(r, 2) ELSE "Untitled Position"
        company_name == IF Truthy(Col(r, 6)) THEN Col(r, 6) ELSE "Company" IN
    [ts_name |-> Col(r, 0), ts_email |-> Col(r, 1), vacancy_name |-> vacancy_name,
     vacancy_link |-> build_job_link(Col(r, 3)), locale |-> Col(r, 4),
     published_date |-> str(Col(r, 5)), company_name |-> company_name,
     poster_gg_id |-> Col(r, 7), valuable_appls |-> Col(r, 8),
     industry |-> detect_industry(vacancy_name, company_name),
     flag |-> "less_than_6"]

record_no_activity(r) ==
    LET vacancy_name == IF Truthy(Col(r, 2)) THEN Col(r, 2) ELSE "Untitled Position"
        company_name == IF Truthy(Col(r, 6)) THEN Col(r, 6) ELSE "Company" IN
    [ts_name |-> Col(r, 0), ts_email |-> Col(r, 1), vacancy_name |-> vacancy_name,
     vacancy_link |-> build_job_link(Col(r, 3)), locale |-> Col(r, 4),
     published_date |-> str(Col(r, 5)), company_name |-> company_name,
     poster_gg_id |-> Col(r, 7),
     industry |-> detect_industry(vacancy_name, company_name),
     flag |-> "no_activity"]

\* The success payloads.
payload_new_ts_posting(days, results) ==
    LET data == [i \in 1..Len(results) |-> record_new_ts_posting(results[i])] IN
    [success |-> TRUE, flag |-> "new_ts_posting",
     description |-> "TSs posting for the first time (includes approved & unapproved)",
     count |-> Len(data), days_lookback |-> days, data |-> data]

payload_less_than_6(days, results) ==
    LET data == [i \in 1..Len(results) |-> record_less_than_6(results[i])] IN
    [success |-> TRUE, flag |-> "less_than_6",
     description |-> "Approved openings with less than 6 relevant applicants",
     count |-> Len(data), days_lookback |-> days, data |-> data]

payload_no_activity(inactive_days, lookback_days, results) ==
    LET data == [i \in 1..Len(results) |-> record_no_activity(results[i])] IN
    [success |-> TRUE, flag |-> "no_activity",
     description |-> "Approved jobs with no activity in pipeline for "
                     \o ToString(inactive_days) \o "+ days",
     count |-> Len(data), inactive_days_threshold |-> inactive_days,
     lookback_days |-> lookback_days, data |-> data]

payload_client(results) ==
    LET r == results[1] IN
    [success |-> TRUE,
     data |-> [name |-> Col(r, 0), email |-> Col(r, 1), gg_id |-> Col(r, 2),
               total_jobs_posted |-> Col(r, 3), open_jobs |-> Col(r, 4),
               first_job_date |-> IF Col(r, 5) /= {}
                                  THEN str(CHOOSE d \in Col(r, 5) : TRUE) ELSE None,
               last_job_date |-> IF Col(r, 6) /= {}
                                 THEN str(CHOOSE d \in Col(r, 6) : TRUE) ELSE None]]

\* except Exception as e: return {"success": False, "error": str(e)}
failure(message) == [success |-> FALSE, error |-> message]

\* dict.get("count", 0)
get_count(d) == IF "count" \in DOMAIN d THEN d.count ELSE 0

\* -------------------------------------------------------------- requests

\* Values of the `days` / `lookback_days` query parameter.
LookbackDays == {1, 7}

\* Values of the `days` query parameter of all-priorities.
AggregateDays == {1}

\* Values of the `inactive_days` query parameter.
InactiveDays == {1, 7}

\* get_no_activity(inactive_days=7, ...) in the aggregate endpoint.
AggregateInactiveDays == 7

\* Values of the {email} path parameter.
Emails == {"ana@torre.co", "cy@torre.co", "nobody@torre.co"}

\* Every keyword of the classifier, with the category whose list holds it.
Keywords ==
    [technology |-> TechWords, sales_marketing |-> SalesWords, finance |-> FinanceWords,
     healthcare |-> HealthWords, design |-> DesignWords, operations_hr |-> HrWords,
     customer_service |-> CustomerWords]

\* The order in which detect_industry tests the categories.
Order == <<"technology", "sales_marketing", "finance", "healthcare", "design",
           "operations_hr", "customer_service">>

AllKeywords == UNION { {Keywords[c][i] : i \in DOMAIN Keywords[c]} : c \in DOMAIN Keywords }

\* Arguments detect_industry is called with directly.
ClassifierInputs ==
    {<<k, "">> : k \in AllKeywords}
    \cup { <<"Sales Engineer", "Acme">>, <<"", "">>, <<"Author", "">>,
           <<"Barista", "Cafe Luna">>, <<"GROWTH Lead", "Cloud Nine">>,
           <<"Account Manager", "MedTech">>, <<"Nurse", "Design Studio">>,
           <<"Plumber", "Customer First">>, <<"UI Artist", "HR Partners">>,
           <<"Controller", "Success Ltd">>, <<"Untitled Position", "Company">> }

\* The requests of the endpoints that query the warehouse.
Requests ==
    {[fn |-> "get_new_ts_posting", days |-> d] : d \in LookbackDays}
    \cup {[fn |-> "get_less_than_6", days |-> d] : d \in LookbackDays}
    \cup {[fn |-> "get_no_activity", inactive_days |-> i, lookback_days |-> d] :
            i \in InactiveDays, d \in LookbackDays}
    \cup {[fn |-> "get_all_high_priority_flags", days |-> d] : d \in AggregateDays}
    \cup {[fn |-> "get_client_details", email |-> e] : e \in Emails}

NoRequest == [fn |-> "none"]
Pending == [kind |-> "pending"]
Returned(value) == [kind |-> "return", value |-> value]
Raised(status_code, detail) ==
    [kind |-> "raise", value |-> [status_code |-> status_code, detail |-> detail]]

\* str(e) of the failures the warehouse client can produce.
ConnectError == "could not connect to poseidon"
QueryError == "query failed"
MalformedError == "'NoneType' object is not iterable"

\* ------------------------------------------------------ aggregate endpoint

\* total_count with a seeded fault: the no_activity count is left out.
total_count_TwoFlags(new_ts, less_6, no_activity) ==
    get_count(new_ts) + get_count(less_6)

total_count(new_ts, less_6, no_activity) ==
    get_count(new_ts) + get_count(less_6) + get_count(no_activity)

\* all_priorities_result with a seeded fault: a failed sub-query fails the aggregate.
all_priorities_result_FailFast(new_ts, less_6, no_activity) ==
    IF \E d \in {new_ts, less_6, no_activity} : ~d.success
    THEN CHOOSE d \in {new_ts, less_6, no_activity} : ~d.success
    ELSE [success |-> TRUE,
          flags |-> [new_ts_posting |-> new_ts, less_than_6 |-> less_6,
                     no_activity |-> no_activity],
          summary |->
             [total_clients_to_contact |-> total_count(new_ts, less_6, no_activity),
              breakdown |-> [new_ts_posting |-> get_count(new_ts),
                             less_than_6 |-> get_count(less_6),
                             no_activity |-> get_count(no_activity)]]]

all_priorities_result(new_ts, less_6, no_activity) ==
    [success |-> TRUE,
     flags |-> [new_ts_posting |-> new_ts, less_than_6 |-> less_6,
                no_activity |-> no_activity],
     summary |->
        [total_clients_to_contact |-> total_count(new_ts, less_6, no_activity),
         breakdown |-> [new_ts_posting |-> get_count(new_ts),
                        less_than_6 |-> get_count(less_6),
                        no_activity |-> get_count(no_activity)]]]

\* The sub-query the aggregate endpoint runs after having gathered n results.
aggregate_call(days, n) ==
    IF n = 0 THEN [fn |-> "get_new_ts_posting", days |-> days]
    ELSE IF n = 1 THEN [fn |-> "get_less_than_6", days |-> days]
    ELSE [fn |-> "get_no_activity", inactive_days |-> AggregateInactiveDays,
          lookback_days |-> days]

\* The endpoint function a worker is executing.
CurrentCall(t) ==
    IF req[t].fn = "get_all_high_priority_flags"
    THEN aggregate_call(req[t].days, Len(flags[t]))
    ELSE req[t]

\* poseidon.execute_query(query): the result sets the query admits.
execute_query(call) ==
    IF call.fn = "get_new_ts_posting"
    THEN OrderedDesc(select_new_ts_posting(mart_jobs, call.days))
    ELSE IF call.fn = "get_less_than_6"
    THEN OrderedDesc(select_less_than_6(mart_jobs, call.days))
    ELSE IF call.fn = "get_no_activity"
    THEN OrderedDesc(select_no_activity(mart_jobs, call.inactive_days, call.lookback_days))
    ELSE AnyOrder(select_client(mart_jobs, call.email))

\* shape with a seeded fault: the not-found signal of the client lookup is caught
\* by the generic handler and comes back as a failure payload.
shape_NotFoundCaught(call, results) ==
    IF call.fn = "get_new_ts_posting"
    THEN Returned(payload_new_ts_posting(call.days, results))
    ELSE IF call.fn = "get_less_than_6"
    THEN Returned(payload_less_than_6(call.days, results))
    ELSE IF call.fn = "get_no_activity"
    THEN Returned(payload_no_activity(call.inactive_days, call.lookback_days, results))
    ELSE IF Len(results) = 0
    THEN Returned(failure("Cliente no encontrado"))
    ELSE Returned(payload_client(results))

\* What the endpoint does with a result set: its return value, or what it raises.
shape(call, results) ==
    IF call.fn = "get_new_ts_posting"
    THEN Returned(payload_new_ts_posting(call.days, results))
    ELSE IF call.fn = "get_less_than_6"
    THEN Returned(payload_less_than_6(call.days, results))
    ELSE IF call.fn = "get_no_activity"
    THEN Returned(payload_no_activity(call.inactive_days, call.lookback_days, results))
    ELSE IF Len(results) = 0
    THEN Raised(404, "Cliente no encontrado")
    ELSE Returned(payload_client(results))

\* on_exception with a seeded fault: no except clause, the exception leaves the
\* endpoint.
on_exception_Propagates(call, message) == Raised(500, message)

\* What the endpoint does when a statement of its try block raises.
on_exception(call, message) == Returned(failure(message))

\* ---------------------------------------------------------- state machine

Init ==
    /\ _poseidon = None
    /\ created = 0
    /\ started = 0
    /\ pc = [t \in Threads |-> "idle"]
    /\ req = [t \in Threads |-> NoRequest]
    /\ poseidon = [t \in Threads |-> None]
    /\ flags = [t \in Threads |-> <<>>]
    /\ trace = [t \in Threads |-> <<>>]
    /\ resp = [t \in Threads |-> Pending]
    /\ mart_jobs \in JobTables

\* The endpoint function a worker was executing ends with `out` (a return or a
\* raise): a request's handler is over, or the aggregate endpoint goes on with
\* its next sub-query and, after the third, builds its summary.
Finish(t, out, entry) ==
    /\ trace' = [trace EXCEPT ![t] = Append(@, entry)]
    /\ poseidon' = [poseidon EXCEPT ![t] = None]
    /\ IF req[t].fn = "get_all_high_priority_flags"
       THEN IF out.kind = "raise"
            THEN /\ resp' = [resp EXCEPT ![t] = Returned(failure(out.value.detail))]
                 /\ pc' = [pc EXCEPT ![t] = "done"]
                 /\ flags' = flags
            ELSE LET got == Append(flags[t], out.value) IN
                 /\ flags' = [flags EXCEPT ![t] = got]
                 /\ IF Len(got) < 3
                    THEN /\ pc' = [pc EXCEPT ![t] = "get_poseidon"]
                         /\ resp' = resp
                    ELSE /\ pc' = [pc EXCEPT ![t] = "done"]
                         /\ resp' = [resp EXCEPT ![t] =
                               Returned(all_priorities_result(got[1], got[2], got[3]))]
       ELSE /\ resp' = [resp EXCEPT ![t] = out]
            /\ pc' = [pc EXCEPT ![t] = "done"]
            /\ flags' = flags

\* A request of a warehouse endpoint reaches a worker.
Begin(t) ==
    /\ pc[t] = "idle"
    /\ started < MaxRequests
    /\ \E r \in Requests : req' = [req EXCEPT ![t] = r]
    /\ started' = started + 1
    /\ pc' = [pc EXCEPT ![t] = "get_poseidon"]
    /\ UNCHANGED <<_poseidon, created, poseidon, flags, trace, resp, mart_jobs>>

\* GET /industries
GetIndustries(t) ==
    /\ pc[t] = "idle"
    /\ started < MaxRequests
    /\ started' = started + 1
    /\ req' = [req EXCEPT ![t] = [fn |-> "get_available_industries"]]
    /\ resp' = [resp EXCEPT ![t] = Returned(get_available_industries)]
    /\ pc' = [pc EXCEPT ![t] = "done"]
    /\ UNCHANGED <<_poseidon, created, poseidon, flags, trace, mart_jobs>>

\* A direct call of detect_industry.
CallDetectIndustry(t) ==
    /\ pc[t] = "idle"
    /\ started < MaxRequests
    /\ started' = started + 1
    /\ \E in \in ClassifierInputs :
        /\ req' = [req EXCEPT ![t] = [fn |-> "detect_industry",
                       vacancy_name |-> in[1], company_name |-> in[2]]]
        /\ resp' = [resp EXCEPT ![t] = Returned(detect_industry(in[1], in[2]))]
    /\ pc' = [pc EXCEPT ![t] = "done"]
    /\ UNCHANGED <<_poseidon, created, poseidon, flags, trace, mart_jobs>>

\* get_poseidon: `if _poseidon is None`
GetPoseidonCheck(t) ==
    /\ pc[t] = "get_poseidon"
    /\ pc' = [pc EXCEPT ![t] = IF _poseidon = None THEN "factory" ELSE "return_poseidon"]
    /\ UNCHANGED <<_poseidon, created, started, req, poseidon, flags, trace, resp, mart_jobs>>

\* get_poseidon: the factory returns a new connection object, stored in _poseidon.
FactorySucceeds(t) ==
    /\ pc[t] = "factory"
    /\ created' = created + 1
    /\ _poseidon' = "connection-" \o ToString(created + 1)
    /\ pc' = [pc EXCEPT ![t] = "return_poseidon"]
    /\ UNCHANGED <<started, req, poseidon, flags, trace, resp, mart_jobs>>

\* get_poseidon: the factory raises; the endpoint's except clause takes over.
FactoryRaises(t) ==
    /\ pc[t] = "factory"
    /\ Finish(t, on_exception(CurrentCall(t), ConnectError),
              [call |-> CurrentCall(t), outcome |-> "connect_error", results |-> <<>>])
    /\ UNCHANGED <<_poseidon, created, started, req, mart_jobs>>

\* get_poseidon: `return _poseidon`
ReturnPoseidon(t) ==
    /\ pc[t] = "return_poseidon"
    /\ poseidon' = [poseidon EXCEPT ![t] = _poseidon]
    /\ pc' = [pc EXCEPT ![t] = "execute_query"]
    /\ UNCHANGED <<_poseidon, created, started, req, flags, trace, resp, mart_jobs>>

\* The query runs and its rows are shaped into the endpoint's result.
QuerySucceeds(t) ==
    /\ pc[t] = "execute_query"
    /\ \E results \in execute_query(CurrentCall(t)) :
        Finish(t, shape(CurrentCall(t), results),
               [call |-> CurrentCall(t), outcome |-> "ok", results |-> results])
    /\ UNCHANGED <<_poseidon, created, started, req, mart_jobs>>

\* execute_query raises.
QueryRaises(t) ==
    /\ pc[t] = "execute_query"
    /\ Finish(t, on_exception(CurrentCall(t), QueryError),
              [call |-> CurrentCall(t), outcome |-> "query_error", results |-> <<>>])
    /\ UNCHANGED <<_poseidon, created, started, req, mart_jobs>>

\* execute_query returns something that is no row list; shaping it raises.
ShapingRaises(t) ==
    /\ pc[t] = "execute_query"
    /\ Finish(t, on_exception(CurrentCall(t), MalformedError),
              [call |-> CurrentCall(t), outcome |-> "shape_error", results |-> <<>>])
    /\ UNCHANGED <<_poseidon, created, started, req, mart_jobs>>

\* The response leaves the worker, which is free again.
Respond(t) ==
    /\ pc[t] = "done"
    /\ pc' = [pc EXCEPT ![t] = "idle"]
    /\ req' = [req EXCEPT ![t] = NoRequest]
    /\ flags' = [flags EXCEPT ![t] = <<>>]
    /\ trace' = [trace EXCEPT ![t] = <<>>]
    /\ resp' = [resp EXCEPT ![t] = Pending]
    /\ UNCHANGED <<_poseidon, created, started, poseidon, mart_jobs>>

Next ==
    \E t \in Threads :
        \/ Begin(t)
        \/ GetIndustries(t)
        \/ GetPoseidonCheck(t)
        \/ FactorySucceeds(t)
        \/ FactoryRaises(t)
        \/ ReturnPoseidon(t)
        \/ QuerySucceeds(t)
        \/ QueryRaises(t)
        \/ ShapingRaises(t)
        \/ Respond(t)

Spec == Init /\ [][Next]_vars

\* One caller alone: the endpoints one request after the other, and direct calls
\* of the classifier.
Caller == CHOOSE t \in Threads : TRUE

NextSequential ==
    \/ Begin(Caller)
    \/ GetIndustries(Caller)
    \/ CallDetectIndustry(Caller)
    \/ GetPoseidonCheck(Caller)
    \/ FactorySucceeds(Caller)
    \/ FactoryRaises(Caller)
    \/ ReturnPoseidon(Caller)
    \/ QuerySucceeds(Caller)
    \/ QueryRaises(Caller)
    \/ ShapingRaises(Caller)
    \/ Respond(Caller)

SpecSequential == Init /\ [][NextSequential]_vars

\* ----------------------------------------------------------------- claims

Labels == {"technology", "sales_marketing", "finance", "healthcare", "design",
           "operations_hr", "customer_service", "general"}

FlagFns == {"get_new_ts_posting", "get_less_than_6", "get_no_activity"}

Min(S) == CHOOSE x \in S : \A y \in S : x <= y

\* The positions in Order of the categories with a keyword occurring in text.
Matching(text) == {i \in DOMAIN Order : AnyWordIn(Keywords[Order[i]], text)}

\* The text detect_industry searches, for the call a worker made.
CallText(t) == Lower(req[t].vacancy_name \o " " \o req[t].company_name)

DoneWith(t, fns) == pc[t] = "done" /\ req[t].fn \in fns

\* str(e) for each failure recorded in the trace.
ErrorOf(outcome) ==
    IF outcome = "connect_error" THEN ConnectError
    ELSE IF outcome = "query_error" THEN QueryError
    ELSE MalformedError

\* C1: detect_industry returns the first category, in the fixed order, with a
\* keyword occurring in the lowercased "title organization"; a text with both a
\* technology keyword and a sales_marketing keyword is classified technology.
C1_FirstMatchingCategory ==
    \A t \in Threads :
        DoneWith(t, {"detect_industry"}) =>
            /\ Matching(CallText(t)) /= {} =>
                   resp[t].value = Order[Min(Matching(CallText(t)))]
            /\ (AnyWordIn(TechWords, CallText(t)) /\ AnyWordIn(SalesWords, CallText(t))) =>
                   resp[t].value = "technology"

C1_Witness ==
    \E t \in Threads :
        /\ DoneWith(t, {"detect_industry"})
        /\ req[t].vacancy_name = "Sales Engineer" /\ req[t].company_name = "Acme"
        /\ AnyWordIn(TechWords, CallText(t)) /\ AnyWordIn(SalesWords, CallText(t))
        /\ resp[t].value = "technology"

\* C2: classification is total: detect_industry returns one of the eight labels,
\* general when no keyword of any category occurs in the text (two empty strings
\* included), and the industry of every record of the three flag endpoints is one
\* of the eight labels.
C2_ClassificationTotal ==
    \A t \in Threads :
        /\ DoneWith(t, {"detect_industry"}) =>
              /\ resp[t].kind = "return"
              /\ resp[t].value \in Labels
              /\ Matching(CallText(t)) = {} => resp[t].value = "general"
        /\ (DoneWith(t, FlagFns) /\ resp[t].value.success) =>
              \A i \in DOMAIN resp[t].value.data :
                  resp[t].value.data[i].industry \in Labels

C2_Witness ==
    \E t \in Threads :
        /\ DoneWith(t, {"detect_industry"})
        /\ req[t].vacancy_name = "" /\ req[t].company_name = ""
        /\ resp[t].value = "general"

\* C3: in the response of all-priorities the total equals the sum of the three
\* breakdown entries, and each entry is the count of that flag's sub-result when
\* it succeeded (the number of rows its query gave) and 0 when it failed.
AggregateNames == <<"new_ts_posting", "less_than_6", "no_activity">>

C3_SummaryAddsUp ==
    \A t \in Threads :
        DoneWith(t, {"get_all_high_priority_flags"}) =>
            LET v == resp[t].value
                b == v.summary.breakdown IN
            /\ v.summary.total_clients_to_contact =
                   b.new_ts_posting + b.less_than_6 + b.no_activity
            /\ \A i \in 1..3 :
                   LET sub == v.flags[AggregateNames[i]] IN
                   /\ sub.success => /\ b[AggregateNames[i]] = sub.count
                                     /\ sub.count = Len(trace[t][i].results)
                   /\ ~sub.success => b[AggregateNames[i]] = 0

C3_Witness ==
    \E t \in Threads :
        /\ DoneWith(t, {"get_all_high_priority_flags"})
        /\ ~resp[t].value.flags.new_ts_posting.success
        /\ resp[t].value.flags.less_than_6.success
        /\ resp[t].value.flags.no_activity.success
        /\ resp[t].value.flags.no_activity.count > 0
        /\ resp[t].value.summary.breakdown.new_ts_posting = 0
        /\ resp[t].value.summary.total_clients_to_contact > 0

\* C4: all-priorities never fails fast: whichever sub-queries fail, the three
\* flags are run in the order new_ts_posting, less_than_6, no_activity (the last
\* with inactive_days 7 and the shared days as lookback), the response has
\* success = true, and under each flag's name stands that flag's failure payload
\* or its full result.
C4_NoFailFast ==
    \A t \in Threads :
        DoneWith(t, {"get_all_high_priority_flags"}) =>
            /\ Len(trace[t]) = 3
            /\ trace[t][1].call = [fn |-> "get_new_ts_posting", days |-> req[t].days]
            /\ trace[t][2].call = [fn |-> "get_less_than_6", days |-> req[t].days]
            /\ trace[t][3].call = [fn |-> "get_no_activity", inactive_days |-> 7,
                                   lookback_days |-> req[t].days]
            /\ resp[t].kind = "return"
            /\ resp[t].value.success
            /\ DOMAIN resp[t].value.flags = {AggregateNames[i] : i \in 1..3}
            /\ \A i \in 1..3 :
                   LET sub == resp[t].value.flags[AggregateNames[i]]
                       e == trace[t][i] IN
                   IF e.outcome = "ok"
                   THEN /\ sub.success
                        /\ sub.flag = AggregateNames[i]
                        /\ sub.count = Len(e.results)
                        /\ sub = shape(e.call, e.results).value
                   ELSE sub = [success |-> FALSE, error |-> ErrorOf(e.outcome)]

C4_Witness ==
    \E t \in Threads :
        /\ DoneWith(t, {"get_all_high_priority_flags"})
        /\ trace[t][1].outcome = "query_error"
        /\ trace[t][2].outcome = "ok"
        /\ trace[t][3].outcome = "shape_error"
        /\ resp[t].value.success
        /\ ~resp[t].value.flags.new_ts_posting.success
        /\ resp[t].value.flags.less_than_6.count > 0

\* C5: in each of the three flag endpoints a failure while obtaining the
\* connection, executing the query or shaping the rows comes back as the value
\* {success: false, error: message}; nothing is raised, and a failed request
\* returns no success payload, a success payload holding every row of the query.
C5_FailuresAreCaught ==
    \A t \in Threads :
        DoneWith(t, FlagFns) =>
            LET e == trace[t][1] IN
            /\ Len(trace[t]) = 1
            /\ resp[t].kind = "return"
            /\ e.outcome /= "ok" =>
                   resp[t].value = [success |-> FALSE, error |-> ErrorOf(e.outcome)]
            /\ resp[t].value.success =>
                   /\ e.outcome = "ok"
                   /\ resp[t].value.count = Len(e.results)
                   /\ Len(resp[t].value.data) = Len(e.results)

C5_Witness ==
    \E t \in Threads :
        /\ DoneWith(t, FlagFns)
        /\ trace[t][1].outcome = "shape_error"
        /\ resp[t] = Returned([success |-> FALSE, error |-> MalformedError])

\* C6: client lookup has three outcomes: zero rows raise the 404, at least one
\* row gives success = true with the first row's summary, and a failure of the
\* connection or of the query gives {success: false, error: message}, never a 404.
C6_ClientLookupOutcomes ==
    \A t \in Threads :
        DoneWith(t, {"get_client_details"}) =>
            LET e == trace[t][1] IN
            /\ (e.outcome = "ok" /\ Len(e.results) = 0) =>
                   /\ resp[t].kind = "raise"
                   /\ resp[t].value.status_code = 404
            /\ (e.outcome = "ok" /\ Len(e.results) > 0) =>
                   /\ resp[t].kind = "return"
                   /\ resp[t].value.success
                   /\ resp[t].value.data.name = Col(e.results[1], 0)
                   /\ resp[t].value.data.email = req[t].email
                   /\ resp[t].value.data.gg_id = Col(e.results[1], 2)
                   /\ resp[t].value.data.total_jobs_posted = Col(e.results[1], 3)
                   /\ resp[t].value.data.open_jobs = Col(e.results[1], 4)
            /\ e.outcome /= "ok" =>
                   resp[t] = Returned([success |-> FALSE, error |-> ErrorOf(e.outcome)])

C6_Witness ==
    \E t \in Threads :
        /\ DoneWith(t, {"get_client_details"})
        /\ req[t].email = "nobody@torre.co"
        /\ trace[t][1].outcome = "ok"
        /\ resp[t].kind = "raise"
        /\ resp[t].value.status_code = 404

\* The posting a record of a flag response was built from.
PostingOf(record) ==
    CHOOSE mj \in mart_jobs : build_job_link(mj.hash_id) = record.vacancy_link

\* The lookback parameter of a flag request.
LookbackOf(r) == IF r.fn = "get_no_activity" THEN r.lookback_days ELSE r.days

\* C7: every record returned by new-ts-posting, less-than-6 or no-activity with
\* lookback N has a publish date d with today - N <= d < today + 1.
C7_WindowInAllFlags ==
    \A t \in Threads :
        (DoneWith(t, FlagFns) /\ resp[t].value.success) =>
            \A i \in DOMAIN resp[t].value.data :
                LET d == PostingOf(resp[t].value.data[i]).published_date IN
                /\ resp[t].value.data[i].published_date = str(d)
                /\ Today - LookbackOf(req[t]) <= d
                /\ d < Today + 1

\* C8: the connection factory is invoked at most once successfully, and every
\* call of get_poseidon returns the same connection object.
C8_SingleConnection ==
    /\ created <= 1
    /\ \A t, u \in Threads :
           (poseidon[t] /= None /\ poseidon[u] /= None) => poseidon[t] = poseidon[u]

\* C9: every keyword is effective for its own category: detect_industry(k, "")
\* returns c for every keyword k of every category c.
C9_EveryKeywordEffective ==
    \A t \in Threads :
        (DoneWith(t, {"detect_industry"}) /\ req[t].company_name = "") =>
            \A c \in DOMAIN Keywords :
                (\E i \in DOMAIN Keywords[c] : Keywords[c][i] = req[t].vacancy_name)
                    => resp[t].value = c

\* C10: the /industries listing has exactly the eight labels, and for each
\* category reports the set of keywords detect_industry tests for it.
C10_ListingAgrees ==
    \A t \in Threads :
        DoneWith(t, {"get_available_industries"}) =>
            LET listing == resp[t].value.industries IN
            /\ DOMAIN listing = Labels
            /\ listing.general.keywords = <<>>
            /\ \A c \in DOMAIN Keywords :
                   {listing[c].keywords[i] : i \in DOMAIN listing[c].keywords}
                       = {Keywords[c][i] : i \in DOMAIN Keywords[c]}

====
